---------------------------- MODULE Spec2Model ----------------------------
(***************************************************************************)
(* A model of the aero-relay chain poller (src/src/ibc.rs): the cursor     *)
(* last_height, the polling loop of IbcPoller::poll with its RPC calls,    *)
(* the event filter, the attribute decoder, the hex/JSON payload decoder   *)
(* and the construction of MsgRecvPacket in IbcPoller::relay_packet.       *)
(*                                                                         *)
(* Text is modelled as a sequence of characters (one-character strings),   *)
(* so that parsing (u64, hex, JSON, split) is computed on the characters.  *)
(* Event kinds and attribute keys are only ever compared for equality by   *)
(* the code and are kept as TLA+ strings.                                  *)
(***************************************************************************)
EXTENDS Integers, Sequences, FiniteSets, TLC

(***************************************************************************)
(* Characters                                                              *)
(***************************************************************************)

\* The printable ASCII characters, code points 32..126, in code-point order
\* (the grave accent, code point 96, is written "GRAVE").
Printable ==
   <<
      " ", "!", "\"", "#", "$", "%", "&", "'", "(", ")", "*", "+", ",", "-", ".", "/",
      "0", "1", "2", "3", "4", "5", "6", "7", "8", "9", ":", ";", "<", "=", ">", "?",
      "@", "A", "B", "C", "D", "E", "F", "G", "H", "I", "J", "K", "L", "M", "N", "O",
      "P", "Q", "R", "S", "T", "U", "V", "W", "X", "Y", "Z", "[", "\\", "]", "^", "_",
      "GRAVE", "a", "b", "c", "d", "e", "f", "g", "h", "i", "j", "k", "l", "m", "n", "o",
      "p", "q", "r", "s", "t", "u", "v", "w", "x", "y", "z", "{", "|", "}", "~"
   >>

\* Code point of a printable character.
CodePoints ==
   [c \in {Printable[i] : i \in 1..Len(Printable)} |->
      31 + CHOOSE i \in 1..Len(Printable) : Printable[i] = c]

Ord(c) == CodePoints[c]

Digits == {"0", "1", "2", "3", "4", "5", "6", "7", "8", "9"}

DigitVal(c) == Ord(c) - 48

\* The character a single byte becomes under String::from_utf8_lossy.  ASCII
\* bytes are themselves; a byte >= 128 that is not part of a valid UTF-8
\* sequence becomes U+FFFD.  The payloads of the model contain no valid
\* multi-byte sequence, so every byte >= 128 is an invalid one.
Chr(b) ==
   IF b >= 32 /\ b <= 126 THEN Printable[b - 31]
   ELSE IF b = 9 THEN "\t"
   ELSE IF b = 10 THEN "\n"
   ELSE IF b = 13 THEN "\r"
   ELSE IF b >= 128 THEN "U+FFFD"
   ELSE "CTRL"

from_utf8_lossy(bytes) == [i \in 1..Len(bytes) |-> Chr(bytes[i])]

(***************************************************************************)
(* str::parse::<u64>                                                       *)
(***************************************************************************)

\* The numbers of the model stay far below 2^64, so the overflow error of
\* the parse is outside its inputs.
RECURSIVE DigitsValue(_, _)
DigitsValue(s, acc) ==
   IF s = <<>> THEN acc
   ELSE DigitsValue(Tail(s), acc * 10 + DigitVal(Head(s)))

AllDigits(s) == \A i \in 1..Len(s) : s[i] \in Digits

\* u64::from_str: an optional leading "+", then one or more decimal digits;
\* anything else (empty, "-", a sign alone, a non-digit) is an error.
ParseU64(s) ==
   LET body == IF s # <<>> /\ Head(s) = "+" THEN Tail(s) ELSE s
   IN  IF body # <<>> /\ AllDigits(body)
       THEN [ok |-> TRUE, val |-> DigitsValue(body, 0)]
       ELSE [ok |-> FALSE, val |-> 0]

\* Result::unwrap_or on the parse result.
parse_unwrap_or(s, dflt) ==
   LET r == ParseU64(s) IN IF r.ok THEN r.val ELSE dflt

(***************************************************************************)
(* hex::decode                                                             *)
(***************************************************************************)

IsHexDigit(c) ==
   \/ c \in Digits
   \/ c \in {"a", "b", "c", "d", "e", "f"}
   \/ c \in {"A", "B", "C", "D", "E", "F"}

HexVal(c) ==
   IF c \in Digits THEN Ord(c) - 48
   ELSE IF c \in {"a", "b", "c", "d", "e", "f"} THEN Ord(c) - 97 + 10
   ELSE Ord(c) - 65 + 10

HexPairs(s) ==
   [i \in 1..(Len(s) \div 2) |-> HexVal(s[2 * i - 1]) * 16 + HexVal(s[2 * i])]

\* hex::decode: odd length or a non-hex character is an error, otherwise each
\* pair of digits is one byte.
hex_decode(s) ==
   IF Len(s) % 2 # 0 THEN [ok |-> FALSE, bytes |-> <<>>]
   ELSE IF \E i \in 1..Len(s) : ~IsHexDigit(s[i]) THEN [ok |-> FALSE, bytes |-> <<>>]
   ELSE [ok |-> TRUE, bytes |-> HexPairs(s)]

(***************************************************************************)
(* serde_json::from_str::<Value>                                           *)
(***************************************************************************)

JNull == [t |-> "null"]
JBool(b) == [t |-> "bool", b |-> b]
JNum(lexeme) == [t |-> "num", lexeme |-> lexeme]
JStr(chars) == [t |-> "str", s |-> chars]
JArr(items) == [t |-> "arr", items |-> items]
\* members: the key/value pairs in document order; a later pair with the same
\* key replaces the earlier one on lookup, as Map::insert does.
JObj(members) == [t |-> "obj", members |-> members]

JErr == [ok |-> FALSE, v |-> JNull, pos |-> 0]
JOk(v, pos) == [ok |-> TRUE, v |-> v, pos |-> pos]

IsWs(c) == c \in {" ", "\t", "\n", "\r"}

RECURSIVE SkipWs(_, _)
SkipWs(s, i) == IF i <= Len(s) /\ IsWs(s[i]) THEN SkipWs(s, i + 1) ELSE i

RECURSIVE ScanDigits(_, _)
ScanDigits(s, i) == IF i <= Len(s) /\ s[i] \in Digits THEN ScanDigits(s, i + 1) ELSE i

\* The text of a string, i being the position after the opening quote.  Of the
\* escapes only \" \\ and \/ occur in the inputs of the model.
RECURSIVE ScanString(_, _, _)
ScanString(s, i, acc) ==
   IF i > Len(s) THEN JErr
   ELSE IF s[i] = "\"" THEN JOk(JStr(acc), i + 1)
   ELSE IF s[i] = "\\"
        THEN IF i + 1 <= Len(s) /\ s[i + 1] \in {"\"", "\\", "/"}
             THEN ScanString(s, i + 2, Append(acc, s[i + 1]))
             ELSE JErr
   ELSE IF s[i] \in {"CTRL", "\t", "\n", "\r"} THEN JErr
   ELSE ScanString(s, i + 1, Append(acc, s[i]))

\* A number: -? (0 | [1-9][0-9]*) (. [0-9]+)? ([eE] [+-]? [0-9]+)?
ParseNumber(s, i) ==
   LET a == IF s[i] = "-" THEN i + 1 ELSE i
   IN  IF a > Len(s) \/ s[a] \notin Digits THEN JErr
       ELSE
       LET b == IF s[a] = "0" THEN a + 1 ELSE ScanDigits(s, a)
           fracOk == ~(b <= Len(s) /\ s[b] = ".")
                        \/ (b + 1 <= Len(s) /\ s[b + 1] \in Digits)
           c == IF b <= Len(s) /\ s[b] = "." THEN ScanDigits(s, b + 1) ELSE b
           hasExp == c <= Len(s) /\ s[c] \in {"e", "E"}
           d == IF hasExp /\ c + 1 <= Len(s) /\ s[c + 1] \in {"+", "-"}
                THEN c + 2 ELSE c + 1
           expOk == ~hasExp \/ (d <= Len(s) /\ s[d] \in Digits)
           e == IF hasExp THEN ScanDigits(s, d) ELSE c
       IN  IF fracOk /\ expOk THEN JOk(JNum(SubSeq(s, i, e - 1)), e) ELSE JErr

StartsWith(s, i, word) ==
   /\ i + Len(word) - 1 <= Len(s)
   /\ SubSeq(s, i, i + Len(word) - 1) = word

RECURSIVE ParseValue(_, _)
RECURSIVE ParseMembers(_, _, _)
RECURSIVE ParseElements(_, _, _)

\* The members of an object, i being the position of the next key.
ParseMembers(s, i, acc) ==
   IF i > Len(s) \/ s[i] # "\"" THEN JErr
   ELSE
   LET k == ScanString(s, i + 1, <<>>)
   IN  IF ~k.ok THEN JErr
       ELSE
       LET c == SkipWs(s, k.pos)
       IN  IF c > Len(s) \/ s[c] # ":" THEN JErr
           ELSE
           LET val == ParseValue(s, c + 1)
           IN  IF ~val.ok THEN JErr
               ELSE
               LET d == SkipWs(s, val.pos)
                   acc2 == Append(acc, [k |-> k.v.s, v |-> val.v])
               IN  IF d > Len(s) THEN JErr
                   ELSE IF s[d] = "}" THEN JOk(JObj(acc2), d + 1)
                   ELSE IF s[d] = "," THEN ParseMembers(s, SkipWs(s, d + 1), acc2)
                   ELSE JErr

\* The elements of an array, i being the position of the next element.
ParseElements(s, i, acc) ==
   LET val == ParseValue(s, i)
   IN  IF ~val.ok THEN JErr
       ELSE
       LET d == SkipWs(s, val.pos)
           acc2 == Append(acc, val.v)
       IN  IF d > Len(s) THEN JErr
           ELSE IF s[d] = "]" THEN JOk(JArr(acc2), d + 1)
           ELSE IF s[d] = "," THEN ParseElements(s, d + 1, acc2)
           ELSE JErr

ParseValue(s, i0) ==
   LET i == SkipWs(s, i0)
   IN  IF i > Len(s) THEN JErr
       ELSE IF s[i] = "{"
            THEN LET j == SkipWs(s, i + 1)
                 IN  IF j <= Len(s) /\ s[j] = "}" THEN JOk(JObj(<<>>), j + 1)
                     ELSE ParseMembers(s, j, <<>>)
       ELSE IF s[i] = "["
            THEN LET j == SkipWs(s, i + 1)
                 IN  IF j <= Len(s) /\ s[j] = "]" THEN JOk(JArr(<<>>), j + 1)
                     ELSE ParseElements(s, j, <<>>)
       ELSE IF s[i] = "\"" THEN ScanString(s, i + 1, <<>>)
       ELSE IF s[i] = "-" \/ s[i] \in Digits THEN ParseNumber(s, i)
       ELSE IF StartsWith(s, i, <<"t", "r", "u", "e">>) THEN JOk(JBool(TRUE), i + 4)
       ELSE IF StartsWith(s, i, <<"f", "a", "l", "s", "e">>) THEN JOk(JBool(FALSE), i + 5)
       ELSE IF StartsWith(s, i, <<"n", "u", "l", "l">>) THEN JOk(JNull, i + 4)
       ELSE JErr

\* serde_json::from_str: one value, then only whitespace up to the end.
json_from_str(s) ==
   LET r == ParseValue(s, 1)
   IN  IF r.ok /\ SkipWs(s, r.pos) > Len(s)
       THEN [ok |-> TRUE, v |-> r.v]
       ELSE [ok |-> FALSE, v |-> JNull]

\* Value's Index<&str>: the member of an object, Null for a missing key and
\* for a value that is not an object.
RECURSIVE LastMember(_, _, _)
LastMember(members, key, found) ==
   IF members = <<>> THEN found
   ELSE LastMember(Tail(members), key,
                   IF Head(members).k = key THEN Head(members).v ELSE found)

json_index(v, key) ==
   IF v.t = "obj" THEN LastMember(v.members, key, JNull) ELSE JNull

\* v[key].as_str().unwrap_or(dflt)
as_str_unwrap_or(v, key, dflt) ==
   LET m == json_index(v, key) IN IF m.t = "str" THEN m.s ELSE dflt

(***************************************************************************)
(* Events, the filter and the attribute decoder (IbcPoller::poll)          *)
(***************************************************************************)

\* An attribute as key_str() and value_str() give it (the attributes of the
\* model are valid UTF-8, so neither falls back to "").
Attr(k, v) == [key |-> k, value |-> v]
Event(kind, attrs) == [kind |-> kind, attributes |-> attrs]

\* Option<T>
None == [some |-> FALSE]
Some(x) == [some |-> TRUE, v |-> x]

\* is_relevant with the destination-channel key forgotten.
is_relevant_src_only(event, channel_id) ==
   /\ (event.kind = "send_packet" \/ event.kind = "write_acknowledgement")
   /\ \E i \in DOMAIN event.attributes :
         /\ event.attributes[i].key = "packet_src_channel"
         /\ event.attributes[i].value = channel_id

\* is_relevant: the kind is one of the two packet kinds and some attribute
\* names the monitored channel as source or destination channel.
is_relevant(event, channel_id) ==
   /\ (event.kind = "send_packet" \/ event.kind = "write_acknowledgement")
   /\ \E i \in DOMAIN event.attributes :
         /\ (\/ event.attributes[i].key = "packet_src_channel"
             \/ event.attributes[i].key = "packet_dst_channel")
         /\ event.attributes[i].value = channel_id

\* The locals of the decoder before the attribute loop.
InitialFields ==
   [sequence |-> 0, src_port |-> <<>>, src_channel |-> <<>>,
    dst_port |-> <<>>, dst_channel |-> <<>>, timeout_height |-> <<>>,
    timeout_timestamp |-> 0, packet_data_hex |-> <<>>]

\* The match with the arms of the two numeric keys exchanged.
MatchAttribute_swapped(f, a) ==
   IF a.key = "packet_sequence"
      THEN [f EXCEPT !.timeout_timestamp = parse_unwrap_or(a.value, 0)]
   ELSE IF a.key = "packet_src_port" THEN [f EXCEPT !.src_port = a.value]
   ELSE IF a.key = "packet_src_channel" THEN [f EXCEPT !.src_channel = a.value]
   ELSE IF a.key = "packet_dst_port" THEN [f EXCEPT !.dst_port = a.value]
   ELSE IF a.key = "packet_dst_channel" THEN [f EXCEPT !.dst_channel = a.value]
   ELSE IF a.key = "packet_timeout_height" THEN [f EXCEPT !.timeout_height = a.value]
   ELSE IF a.key = "packet_timeout_timestamp"
      THEN [f EXCEPT !.sequence = parse_unwrap_or(a.value, 0)]
   ELSE IF a.key = "packet_data_hex" THEN [f EXCEPT !.packet_data_hex = a.value]
   ELSE f

\* One turn of the attribute loop: the match on the key.
MatchAttribute(f, a) ==
   IF a.key = "packet_sequence"
      THEN [f EXCEPT !.sequence = parse_unwrap_or(a.value, 0)]
   ELSE IF a.key = "packet_src_port" THEN [f EXCEPT !.src_port = a.value]
   ELSE IF a.key = "packet_src_channel" THEN [f EXCEPT !.src_channel = a.value]
   ELSE IF a.key = "packet_dst_port" THEN [f EXCEPT !.dst_port = a.value]
   ELSE IF a.key = "packet_dst_channel" THEN [f EXCEPT !.dst_channel = a.value]
   ELSE IF a.key = "packet_timeout_height" THEN [f EXCEPT !.timeout_height = a.value]
   ELSE IF a.key = "packet_timeout_timestamp"
      THEN [f EXCEPT !.timeout_timestamp = parse_unwrap_or(a.value, 0)]
   ELSE IF a.key = "packet_data_hex" THEN [f EXCEPT !.packet_data_hex = a.value]
   ELSE f

\* The attribute loop in which the first occurrence of a key wins: the
\* attributes applied from the last to the first.
RECURSIVE DecodeAttributes_first_wins(_, _)
DecodeAttributes_first_wins(attrs, f) ==
   IF attrs = <<>> THEN f
   ELSE MatchAttribute(DecodeAttributes_first_wins(Tail(attrs), f), Head(attrs))

\* The attribute loop: the match applied to the attributes in their order.
RECURSIVE DecodeAttributes(_, _)
DecodeAttributes(attrs, f) ==
   IF attrs = <<>> THEN f
   ELSE DecodeAttributes(Tail(attrs), MatchAttribute(f, Head(attrs)))

\* The ParsedPacket literal: the decoded attributes and the four payload
\* fields, each with its unwrap_or default.
MakeParsedPacket(f, v) ==
   [sequence |-> f.sequence,
    src_port |-> f.src_port,
    src_channel |-> f.src_channel,
    dst_port |-> f.dst_port,
    dst_channel |-> f.dst_channel,
    timeout_height |-> f.timeout_height,
    timeout_timestamp |-> f.timeout_timestamp,
    data |-> [amount |-> as_str_unwrap_or(v, <<"a", "m", "o", "u", "n", "t">>, <<"0">>),
              denom |-> as_str_unwrap_or(v, <<"d", "e", "n", "o", "m">>, <<>>),
              sender |-> as_str_unwrap_or(v, <<"s", "e", "n", "d", "e", "r">>, <<>>),
              receiver |-> as_str_unwrap_or(v, <<"r", "e", "c", "e", "i", "v", "e", "r">>, <<>>)]]

(***************************************************************************)
(* IbcPoller::relay_packet                                                 *)
(***************************************************************************)

\* The UTF-8 bytes of a character.
Utf8(c) ==
   IF c = "U+FFFD" THEN <<239, 191, 189>>
   ELSE IF c = "\t" THEN <<9>>
   ELSE IF c = "\n" THEN <<10>>
   ELSE IF c = "\r" THEN <<13>>
   ELSE <<Ord(c)>>

RECURSIVE Utf8Bytes(_)
Utf8Bytes(s) == IF s = <<>> THEN <<>> ELSE Utf8(Head(s)) \o Utf8Bytes(Tail(s))

\* prost's encoding of one string field: nothing for the empty string, else
\* the tag (field number, wire type 2), the length and the bytes.  Lengths of
\* the model stay below 128, one varint byte.
ProtoString(field, s) ==
   IF s = <<>> THEN <<>>
   ELSE LET b == Utf8Bytes(s) IN <<field * 8 + 2, Len(b)>> \o b

\* prost::Message::encode of FungibleTokenPacketData {denom = 1, amount = 2,
\* sender = 3, receiver = 4, memo = 5}.
ProtoEncode(fd) ==
   ProtoString(1, fd.denom) \o ProtoString(2, fd.amount)
      \o ProtoString(3, fd.sender) \o ProtoString(4, fd.receiver)
      \o ProtoString(5, fd.memo)

\* str::split('-'): the segments between the separators.
RECURSIVE SplitAcc(_, _, _, _)
SplitAcc(s, sep, cur, acc) ==
   IF s = <<>> THEN Append(acc, cur)
   ELSE IF Head(s) = sep THEN SplitAcc(Tail(s), sep, <<>>, Append(acc, cur))
   ELSE SplitAcc(Tail(s), sep, Append(cur, Head(s)), acc)

split(s, sep) == SplitAcc(s, sep, <<>>, <<>>)

\* timeout_height.split('-').nth(1).and_then(|s| s.parse().ok()).unwrap_or(0)
revision_height_of(timeout_height) ==
   LET parts == split(timeout_height, "-")
   IN  IF Len(parts) >= 2 THEN parse_unwrap_or(parts[2], 0) ELSE 0

IbcHeight(n, h) == [revision_number |-> n, revision_height |-> h]

LogEntry(level, text, at) == [level |-> level, text |-> text, at |-> at]

\* The signer of a message: the RELAYER_SIGNER variable, or the placeholder.
DEFAULT_SIGNER ==
   <<"r", "e", "p", "l", "a", "c", "e", "_", "w", "i", "t", "h", "_",
     "y", "o", "u", "r", "_", "a", "d", "d", "r", "e", "s", "s">>

env_var_unwrap_or(env, dflt) == IF env.some THEN env.v ELSE dflt

\* relay_packet with the two ends of the packet exchanged: the source taken
\* from the destination of the ParsedPacket and the destination from its source.
relay_packet_mirrored(self, parsed, at, env) ==
   LET fungible_data == [denom |-> parsed.data.denom,
                         amount |-> parsed.data.amount,
                         sender |-> parsed.data.sender,
                         receiver |-> parsed.data.receiver,
                         memo |-> <<>>]
       revision_height == revision_height_of(parsed.timeout_height)
       packet == [sequence |-> parsed.sequence,
                  source_port |-> parsed.dst_port,
                  source_channel |-> parsed.dst_channel,
                  destination_port |-> parsed.src_port,
                  destination_channel |-> parsed.src_channel,
                  data |-> ProtoEncode(fungible_data),
                  timeout_height |-> IF revision_height > 0
                                     THEN Some(IbcHeight(1, revision_height))
                                     ELSE None,
                  timeout_timestamp |-> parsed.timeout_timestamp]
       msg == [packet |-> packet,
               proof_commitment |-> <<>>,
               proof_height |-> IbcHeight(0, self.last_height),
               signer |-> env_var_unwrap_or(env.RELAYER_SIGNER, DEFAULT_SIGNER)]
       formed == <<LogEntry("info", "MsgRecvPacket formed successfully!", at)>>
       zk == IF env.encryption_proof /\ ~env.proof_ok
             THEN <<LogEntry("error", "ZK proof generation failed", at)>>
             ELSE <<>>
   IN  [ok |-> TRUE, msg |-> msg, log |-> formed \o zk]

\* relay_packet(self, parsed, packet_data_hex): the MsgRecvPacket it forms and
\* the log lines it writes.  self is the poller (its last_height is read for
\* proof_height), env the process environment: the RELAYER_SIGNER variable,
\* the encryption-proof feature of the build and the outcome of
\* generate_packet_proof.  relay_packet has no failing path: its result is
\* always Ok(()).
relay_packet(self, parsed, at, env) ==
   LET fungible_data == [denom |-> parsed.data.denom,
                         amount |-> parsed.data.amount,
                         sender |-> parsed.data.sender,
                         receiver |-> parsed.data.receiver,
                         memo |-> <<>>]
       revision_height == revision_height_of(parsed.timeout_height)
       packet == [sequence |-> parsed.sequence,
                  source_port |-> parsed.src_port,
                  source_channel |-> parsed.src_channel,
                  destination_port |-> parsed.dst_port,
                  destination_channel |-> parsed.dst_channel,
                  data |-> ProtoEncode(fungible_data),
                  timeout_height |-> IF revision_height > 0
                                     THEN Some(IbcHeight(1, revision_height))
                                     ELSE None,
                  timeout_timestamp |-> parsed.timeout_timestamp]
       msg == [packet |-> packet,
               proof_commitment |-> <<>>,
               proof_height |-> IbcHeight(0, self.last_height),
               signer |-> env_var_unwrap_or(env.RELAYER_SIGNER, DEFAULT_SIGNER)]
       formed == <<LogEntry("info", "MsgRecvPacket formed successfully!", at)>>
       zk == IF env.encryption_proof /\ ~env.proof_ok
             THEN <<LogEntry("error", "ZK proof generation failed", at)>>
             ELSE <<>>
   IN  [ok |-> TRUE, msg |-> msg, log |-> formed \o zk]

(***************************************************************************)
(* The event loop of one block (IbcPoller::poll, the Ok(results) arm)      *)
(***************************************************************************)

\* The body of the event loop without the test that packet_data_hex is not
\* empty: an empty text goes to the hex decoding.
handle_event_unguarded(st, self, env, event, at) ==
   IF ~is_relevant(event, self.channel_id) THEN st
   ELSE
   LET st1 == [st EXCEPT !.log = Append(@, LogEntry("info", "IBC PACKET DETECTED!", at)),
                         !.handled = Append(@, at)]
       f == DecodeAttributes(event.attributes, InitialFields)
   IN
       LET hx == hex_decode(f.packet_data_hex)
       IN  IF ~hx.ok
           THEN [st1 EXCEPT !.log = Append(@, LogEntry("warn", "Failed to decode packet hex", at))]
           ELSE
           LET js == json_from_str(from_utf8_lossy(hx.bytes))
           IN  IF ~js.ok
               THEN [st1 EXCEPT !.log = Append(@, LogEntry("warn", "Failed to parse packet JSON", at))]
               ELSE
               LET parsed == MakeParsedPacket(f, js.v)
                   r == relay_packet(self, parsed, at, env)
               IN  [st1 EXCEPT
                      !.built = Append(@, [at |-> at, parsed |-> parsed, msg |-> r.msg]),
                      !.log = IF r.ok THEN @ \o r.log
                              ELSE Append(@ \o r.log,
                                          LogEntry("error", "Failed to relay packet", at))]

\* st gathers what the loop produces: built (each ParsedPacket with the
\* MsgRecvPacket formed from it), log (the log lines, of which the model
\* keeps the failure lines and the two lines "IBC PACKET DETECTED!" and
\* "MsgRecvPacket formed successfully!") and handled (the events that passed
\* the filter, in the order the loop reached them).  at = <<height, index of
\* the transaction, index of the event>> names the event.
handle_event(st, self, env, event, at) ==
   IF ~is_relevant(event, self.channel_id) THEN st
   ELSE
   LET st1 == [st EXCEPT !.log = Append(@, LogEntry("info", "IBC PACKET DETECTED!", at)),
                         !.handled = Append(@, at)]
       f == DecodeAttributes(event.attributes, InitialFields)
   IN  IF f.packet_data_hex = <<>> THEN st1
       ELSE
       LET hx == hex_decode(f.packet_data_hex)
       IN  IF ~hx.ok
           THEN [st1 EXCEPT !.log = Append(@, LogEntry("warn", "Failed to decode packet hex", at))]
           ELSE
           LET js == json_from_str(from_utf8_lossy(hx.bytes))
           IN  IF ~js.ok
               THEN [st1 EXCEPT !.log = Append(@, LogEntry("warn", "Failed to parse packet JSON", at))]
               ELSE
               LET parsed == MakeParsedPacket(f, js.v)
                   r == relay_packet(self, parsed, at, env)
               IN  [st1 EXCEPT
                      !.built = Append(@, [at |-> at, parsed |-> parsed, msg |-> r.msg]),
                      !.log = IF r.ok THEN @ \o r.log
                              ELSE Append(@ \o r.log,
                                          LogEntry("error", "Failed to relay packet", at))]

\* The event loop walking the events of a transaction from the last to the
\* first.
RECURSIVE handle_events_reversed(_, _, _, _, _, _, _)
handle_events_reversed(st, self, env, events, h, t, e) ==
   IF e > Len(events) THEN st
   ELSE handle_events_reversed(
           handle_event(st, self, env, events[Len(events) + 1 - e],
                        <<h, t, Len(events) + 1 - e>>),
           self, env, events, h, t, e + 1)

\* for event in tx_res.events, from event number e on
RECURSIVE handle_events(_, _, _, _, _, _, _)
handle_events(st, self, env, events, h, t, e) ==
   IF e > Len(events) THEN st
   ELSE handle_events(handle_event(st, self, env, events[e], <<h, t, e>>),
                      self, env, events, h, t, e + 1)

\* for tx_res in txs_results, from transaction number t on
RECURSIVE handle_txs(_, _, _, _, _, _)
handle_txs(st, self, env, txs, h, t) ==
   IF t > Len(txs) THEN st
   ELSE handle_txs(handle_events(st, self, env, txs[t].events, h, t, 1),
                   self, env, txs, h, t + 1)

\* if let Some(txs_results) = results.txs_results { ... }
handle_results(st, self, env, results, h) ==
   IF results.txs_results.some
   THEN handle_txs(st, self, env, results.txs_results.v, h, 1)
   ELSE st

(***************************************************************************)
(* The source chain: what it encodes into its events                       *)
(***************************************************************************)

HexDigits ==
   <<"0", "1", "2", "3", "4", "5", "6", "7", "8", "9", "a", "b", "c", "d", "e", "f">>

RECURSIVE hex_encode(_)
hex_encode(bytes) ==
   IF bytes = <<>> THEN <<>>
   ELSE <<HexDigits[(Head(bytes) \div 16) + 1], HexDigits[(Head(bytes) % 16) + 1]>>
           \o hex_encode(Tail(bytes))

HexOfText(text) == hex_encode(Utf8Bytes(text))

Quote(text) == <<"\"">> \o text \o <<"\"">>
Member(k, valueText) == Quote(k) \o <<":">> \o valueText

RECURSIVE JoinComma(_)
JoinComma(texts) ==
   IF texts = <<>> THEN <<>>
   ELSE IF Len(texts) = 1 THEN texts[1]
   ELSE texts[1] \o <<",">> \o JoinComma(Tail(texts))

ObjectText(members) == <<"{">> \o JoinComma(members) \o <<"}">>

AMOUNT == <<"a", "m", "o", "u", "n", "t">>
DENOM == <<"d", "e", "n", "o", "m">>
SENDER == <<"s", "e", "n", "d", "e", "r">>
RECEIVER == <<"r", "e", "c", "e", "i", "v", "e", "r">>

CHANNEL_7 == <<"c", "h", "a", "n", "n", "e", "l", "-", "7">>
CHANNEL_8 == <<"c", "h", "a", "n", "n", "e", "l", "-", "8">>
CHANNEL_9 == <<"c", "h", "a", "n", "n", "e", "l", "-", "9">>
TRANSFER == <<"t", "r", "a", "n", "s", "f", "e", "r">>
SIGNER_ADDR == <<"c", "o", "s", "m", "o", "s", "1", "r">>

MAmount == Member(AMOUNT, Quote(<<"1", "0", "0">>))
MDenom == Member(DENOM, Quote(<<"u", "a", "t", "o", "m">>))
MSender == Member(SENDER, Quote(<<"a", "1">>))
MReceiver == Member(RECEIVER, Quote(<<"b", "1">>))

\* {"amount":"100","denom":"uatom","sender":"a1","receiver":"b1"}
PayloadValid == ObjectText(<<MAmount, MDenom, MSender, MReceiver>>)
\* the same without the denom member
PayloadNoDenom == ObjectText(<<MAmount, MSender, MReceiver>>)
\* the same cut before its closing brace: not JSON
PayloadBroken == SubSeq(PayloadValid, 1, Len(PayloadValid) - 1)

\* The attributes of a packet event as the chain writes them.
PacketAttrs(seqText, srcChannel, dstChannel, timeoutHeight, dataHex) ==
   <<Attr("packet_data_hex", dataHex),
     Attr("packet_timeout_height", timeoutHeight),
     Attr("packet_timeout_timestamp", <<"1", "7">>),
     Attr("packet_sequence", seqText),
     Attr("packet_src_port", TRANSFER),
     Attr("packet_src_channel", srcChannel),
     Attr("packet_dst_port", TRANSFER),
     Attr("packet_dst_channel", dstChannel),
     Attr("packet_channel_ordering", <<"O", "R", "D", "E", "R", "_", "U">>)>>

WithoutKey(attrs, key) == SelectSeq(attrs, LAMBDA a : a.key # key)

T3_150 == <<"3", "-", "1", "5", "0">>

\* send_packet, sequence 42, from the monitored channel, valid payload
EvSend42 ==
   Event("send_packet",
         PacketAttrs(<<"4", "2">>, CHANNEL_7, CHANNEL_8, T3_150, HexOfText(PayloadValid)))
\* write_acknowledgement of sequence 42, the monitored channel as destination
EvAck42 ==
   Event("write_acknowledgement",
         PacketAttrs(<<"4", "2">>, CHANNEL_8, CHANNEL_7, T3_150, HexOfText(PayloadValid)))
\* write_acknowledgement of a packet received from a chain whose channel has
\* the id of the monitored one: the pair of src_channel and sequence of EvSend42
EvAckSame42 ==
   Event("write_acknowledgement",
         PacketAttrs(<<"4", "2">>, CHANNEL_7, CHANNEL_8, T3_150, HexOfText(PayloadValid)))
\* a packet of another channel pair
EvOther ==
   Event("send_packet",
         PacketAttrs(<<"5">>, CHANNEL_8, CHANNEL_9, T3_150, HexOfText(PayloadValid)))
\* an event of another kind that names the monitored channel
EvTransfer ==
   Event("transfer", <<Attr("packet_src_channel", CHANNEL_7)>>)
\* packet_data_hex that is not hex
EvBadHex ==
   Event("send_packet",
         PacketAttrs(<<"4", "3">>, CHANNEL_7, CHANNEL_8, T3_150, <<"z", "z">>))
\* payload that is not JSON
EvBadJson ==
   Event("send_packet",
         PacketAttrs(<<"4", "4">>, CHANNEL_7, CHANNEL_8, T3_150, HexOfText(PayloadBroken)))
\* payload without the denom field
EvNoDenom ==
   Event("send_packet",
         PacketAttrs(<<"4", "5">>, CHANNEL_7, CHANNEL_8, T3_150, HexOfText(PayloadNoDenom)))
\* packet_sequence that is not a number
EvBadSeq ==
   Event("send_packet",
         PacketAttrs(<<"x", "4", "6">>, CHANNEL_7, CHANNEL_8, <<>>, HexOfText(PayloadValid)))
\* no packet_data_hex attribute at all
EvNoData ==
   Event("send_packet",
         WithoutKey(PacketAttrs(<<"4", "7">>, CHANNEL_7, CHANNEL_8, T3_150, <<>>),
                    "packet_data_hex"))

Tx(events) == [events |-> events]
BlockResults(txs) == [txs_results |-> Some(txs)]

\* height 1000 of the end-to-end scenario: one send_packet, sequence 42
BlockE2E == BlockResults(<<Tx(<<EvSend42>>)>>)
\* two transactions with events of every kind the decoder distinguishes
BlockMixed ==
   BlockResults(<<Tx(<<EvOther, EvBadHex, EvTransfer, EvNoDenom>>),
                  Tx(<<EvBadJson, EvAck42, EvNoData, EvBadSeq, EvAckSame42>>)>>)
\* block results without transaction results
BlockNoTxs == [txs_results |-> None]

\* The state keeps a block of the chain by reference: <<"block", name>> for
\* one of the blocks above, <<"event", ev>> for the block of one transaction
\* whose only event is ev.
BlockNames == {"E2E", "Mixed", "NoTxs"}

Blocks == {<<"block", n>> : n \in BlockNames}

NamedBlock(n) ==
   IF n = "E2E" THEN BlockE2E
   ELSE IF n = "Mixed" THEN BlockMixed
   ELSE BlockNoTxs

ResultsOf(b) ==
   IF b[1] = "block" THEN NamedBlock(b[2]) ELSE BlockResults(<<Tx(<<b[2]>>)>>)

(***************************************************************************)
(* Bounds                                                                  *)
(***************************************************************************)

\* The height of the source chain when the model starts.
Base == 999
\* The number of blocks the chain produces above Base.
MaxBlocks == 2
\* The number of failures of the current-height fetch in one run.
MaxHeightFailures == 2
\* The number of relays of config.relays.
MaxRelays == 3
Relays == 1..MaxRelays

(***************************************************************************)
(* State                                                                   *)
(***************************************************************************)

VARIABLES
   chain,           \* the source chain: chain[i] is the block of height Base + i
   RELAYER_SIGNER,  \* the environment variable read by relay_packet (an Option)
   encryption_proof,\* the encryption-proof feature of the build
   height_warnings, \* the number of "Failed to get current block height" lines
   pc,              \* where the poller task is: the call or sleep it awaits
   channel_id,      \* IbcPoller.channel_id
   last_height,     \* IbcPoller.last_height, the cursor
   current_height,  \* the local current_height of poll
   start_height,    \* the value new gave to last_height
   fetched,         \* the heights passed to block_results, in order
   fetch_ok,        \* the heights whose block_results call returned Ok
   built,           \* the ParsedPackets and MsgRecvPackets formed, in order
   handled,         \* the events that passed the filter, in order
   log,             \* the log lines written
   main_pc,         \* where main is: its loop over config.relays, ctrl_c, exited
   tasks,           \* the task main spawned for each relay: its place, its cursor
   main_log         \* the error lines of the spawned tasks, with their relay

vars == <<chain, RELAYER_SIGNER, encryption_proof, height_warnings, pc, channel_id, last_height,
          current_height, start_height, fetched, fetch_ok, built, handled, log,
          main_pc, tasks, main_log>>

envVars == <<RELAYER_SIGNER, encryption_proof>>
historyVars == <<fetched, fetch_ok, built, handled, log, height_warnings>>
mainVars == <<main_pc, tasks, main_log>>

Tip == Base + Len(chain)

\* What block_results(h) answers when it succeeds.
block_results(h) == ResultsOf(chain[h - Base])

MonitoredChannels == {CHANNEL_7}
\* The environments of the model: a default build without RELAYER_SIGNER, and
\* a build with the encryption-proof feature and RELAYER_SIGNER set.
Environments ==
   {[RELAYER_SIGNER |-> None, encryption_proof |-> FALSE],
    [RELAYER_SIGNER |-> Some(SIGNER_ADDR), encryption_proof |-> TRUE]}

BLOCK_RESULTS_FAILED == "Failed to get block results"

\* main before its loop over config.relays: no task is spawned yet.
InitMain ==
   /\ main_pc = "for"
   /\ tasks = [r \in Relays |-> [pc |-> "unspawned", last_height |-> 0]]
   /\ main_log = <<>>

Init ==
   /\ chain = <<>>
   /\ \E e \in Environments :
         /\ RELAYER_SIGNER = e.RELAYER_SIGNER
         /\ encryption_proof = e.encryption_proof
   /\ height_warnings = 0
   /\ pc = "new"
   /\ channel_id \in MonitoredChannels
   /\ last_height = 0
   /\ current_height = 0
   /\ start_height = 0
   /\ fetched = <<>>
   /\ fetch_ok = {}
   /\ built = <<>>
   /\ handled = <<>>
   /\ log = <<>>
   /\ InitMain

(***************************************************************************)
(* The source chain                                                        *)
(***************************************************************************)

\* The chain commits its next block.
ChainAdvance ==
   /\ Len(chain) < MaxBlocks
   /\ \E b \in Blocks : chain' = Append(chain, b)
   /\ UNCHANGED <<envVars, mainVars, pc, channel_id, last_height, current_height,
                  start_height, historyVars>>

\* The heights abci_info can answer with: the node that serves the call has
\* the chain up to its tip or lags behind it.
ReportedHeights == Base..Tip

(***************************************************************************)
(* IbcPoller::new, called by the task main spawns for the relay pair       *)
(***************************************************************************)

\* new with the cursor set one height below the height the chain reported.
NewOk_backfill ==
   /\ pc = "new"
   /\ \E h \in ReportedHeights :
         /\ last_height' = (IF h > Base THEN h - 1 ELSE h)
         /\ start_height' = h
   /\ pc' = "abci_info"
   /\ UNCHANGED <<chain, envVars, mainVars, channel_id, current_height, historyVars>>

\* new returned the poller: the cursor is the height abci_info reported.
NewOk ==
   /\ pc = "new"
   /\ \E h \in ReportedHeights :
         /\ last_height' = h
         /\ start_height' = h
   /\ pc' = "abci_info"
   /\ UNCHANGED <<chain, envVars, mainVars, channel_id, current_height, historyVars>>

\* HttpClient::new or abci_info failed: new returns the error and the task
\* logs it and ends.
NewErr ==
   /\ pc = "new"
   /\ pc' = "init_failed"
   /\ log' = Append(log, LogEntry("error", "Failed to initialize poller", <<0, 0, 0>>))
   /\ UNCHANGED <<chain, envVars, mainVars, channel_id, last_height, current_height,
                  start_height, fetched, fetch_ok, built, handled, height_warnings>>

(***************************************************************************)
(* IbcPoller::poll                                                         *)
(***************************************************************************)

\* tendermint's Height holds the values up to i64::MAX.  The largest integer
\* of the model checker stands for it; every height of the model is far
\* below either.
HEIGHT_MAX == 2147483647

\* Height::try_from(h) is Ok.
HeightTryFromOk(h) == h <= HEIGHT_MAX

\* The head of the inner loop with the cursor set back to a lower reported
\* height.
WhileHead_resync(cur) ==
   IF last_height < cur
   THEN /\ last_height' = last_height + 1
        /\ fetched' = Append(fetched, last_height + 1)
        /\ pc' = "block_results"
        /\ UNCHANGED log
   ELSE /\ pc' = "sleep_6s"
        /\ last_height' = cur
        /\ UNCHANGED <<fetched, log>>

\* The head of the inner loop, up to its next await: while last_height <
\* current_height, increment the cursor, convert it to a Height and call
\* block_results for it; otherwise leave the loop for the 6 s sleep.  When
\* the conversion fails, poll returns the error with ? and the task that
\* called it logs "Polling error".
WhileHead(cur) ==
   IF last_height < cur
   THEN IF HeightTryFromOk(last_height + 1)
        THEN /\ last_height' = last_height + 1
             /\ fetched' = Append(fetched, last_height + 1)
             /\ pc' = "block_results"
             /\ UNCHANGED log
        ELSE /\ last_height' = last_height + 1
             /\ pc' = "returned"
             /\ log' = Append(log, LogEntry("error", "Polling error",
                                            <<last_height + 1, 0, 0>>))
             /\ UNCHANGED fetched
   ELSE /\ pc' = "sleep_6s"
        /\ UNCHANGED <<last_height, fetched, log>>

\* abci_info answered with height h and the inner loop run towards the tip
\* of the chain instead of h.
AbciInfoOk_beyond ==
   /\ pc = "abci_info"
   /\ \E h \in ReportedHeights :
         /\ current_height' = h
         /\ WhileHead(Tip)
   /\ UNCHANGED <<chain, envVars, mainVars, channel_id, start_height, fetch_ok, built,
                  handled, height_warnings>>

\* abci_info answered with height h.
AbciInfoOk ==
   /\ pc = "abci_info"
   /\ \E h \in ReportedHeights :
         /\ current_height' = h
         /\ WhileHead(h)
   /\ UNCHANGED <<chain, envVars, mainVars, channel_id, start_height, fetch_ok, built,
                  handled, height_warnings>>

\* The failure of abci_info propagated with ?: poll returns the error.
AbciInfoErr_return ==
   /\ pc = "abci_info"
   /\ height_warnings < MaxHeightFailures
   /\ height_warnings' = height_warnings + 1
   /\ pc' = "returned"
   /\ UNCHANGED <<chain, envVars, mainVars, channel_id, last_height, current_height,
                  start_height, fetched, fetch_ok, built, handled, log>>

\* abci_info failed: warn, then sleep 10 s.
AbciInfoErr ==
   /\ pc = "abci_info"
   /\ height_warnings < MaxHeightFailures
   /\ height_warnings' = height_warnings + 1
   /\ pc' = "sleep_10s"
   /\ UNCHANGED <<chain, envVars, mainVars, channel_id, last_height, current_height,
                  start_height, fetched, fetch_ok, built, handled, log>>

\* The 10 s sleep is over: continue, back to the height fetch.
Sleep10s ==
   /\ pc = "sleep_10s"
   /\ pc' = "abci_info"
   /\ UNCHANGED <<chain, envVars, mainVars, channel_id, last_height, current_height,
                  start_height, historyVars>>

\* The outcomes of generate_packet_proof: it is only called in a build with
\* the encryption-proof feature.
ProofOutcomes == IF encryption_proof THEN BOOLEAN ELSE {TRUE}

\* The block results handled by a poller whose messages take their proof
\* height from the last height the chain reported, not from the cursor.
BlockResultsOk_observed ==
   /\ pc = "block_results"
   /\ \E proof_ok \in ProofOutcomes :
         LET self == [channel_id |-> channel_id, last_height |-> current_height]
             env == [RELAYER_SIGNER |-> RELAYER_SIGNER,
                     encryption_proof |-> encryption_proof,
                     proof_ok |-> proof_ok]
             st == handle_results([built |-> built, log |-> log, handled |-> handled],
                                  self, env, block_results(last_height), last_height)
         IN  /\ built' = st.built
             /\ log' = st.log
             /\ handled' = st.handled
   /\ fetch_ok' = fetch_ok \cup {last_height}
   /\ pc' = "sleep_200ms"
   /\ UNCHANGED <<chain, envVars, mainVars, channel_id, last_height, current_height,
                  start_height, fetched, height_warnings>>

\* block_results(last_height) answered: the event loop over its transaction
\* results runs to its end (relay_packet awaits nothing), then the 200 ms
\* sleep begins.
BlockResultsOk ==
   /\ pc = "block_results"
   /\ \E proof_ok \in ProofOutcomes :
         LET self == [channel_id |-> channel_id, last_height |-> last_height]
             env == [RELAYER_SIGNER |-> RELAYER_SIGNER,
                     encryption_proof |-> encryption_proof,
                     proof_ok |-> proof_ok]
             st == handle_results([built |-> built, log |-> log, handled |-> handled],
                                  self, env, block_results(last_height), last_height)
         IN  /\ built' = st.built
             /\ log' = st.log
             /\ handled' = st.handled
   /\ fetch_ok' = fetch_ok \cup {last_height}
   /\ pc' = "sleep_200ms"
   /\ UNCHANGED <<chain, envVars, mainVars, channel_id, last_height, current_height,
                  start_height, fetched, height_warnings>>

\* The failure of block_results propagated with ?: poll returns the error.
BlockResultsErr_return ==
   /\ pc = "block_results"
   /\ log' = Append(log, LogEntry("debug", BLOCK_RESULTS_FAILED, <<last_height, 0, 0>>))
   /\ pc' = "returned"
   /\ UNCHANGED <<chain, envVars, mainVars, channel_id, last_height, current_height,
                  start_height, fetched, fetch_ok, built, handled, height_warnings>>

\* block_results(last_height) failed: a debug line, then the 200 ms sleep.
BlockResultsErr ==
   /\ pc = "block_results"
   /\ log' = Append(log, LogEntry("debug", BLOCK_RESULTS_FAILED, <<last_height, 0, 0>>))
   /\ pc' = "sleep_200ms"
   /\ UNCHANGED <<chain, envVars, mainVars, channel_id, last_height, current_height,
                  start_height, fetched, fetch_ok, built, handled, height_warnings>>

\* The 200 ms sleep after which a height whose block_results call failed is
\* requested again.
Sleep200ms_retry ==
   /\ pc = "sleep_200ms"
   /\ IF last_height \notin fetch_ok
      THEN /\ pc' = "block_results"
           /\ fetched' = Append(fetched, last_height)
           /\ UNCHANGED <<last_height, log>>
      ELSE WhileHead(current_height)
   /\ UNCHANGED <<chain, envVars, mainVars, channel_id, current_height, start_height,
                  fetch_ok, built, handled, height_warnings>>

\* The 200 ms sleep is over: back to the head of the inner loop.
Sleep200ms ==
   /\ pc = "sleep_200ms"
   /\ WhileHead(current_height)
   /\ UNCHANGED <<chain, envVars, mainVars, channel_id, current_height, start_height,
                  fetch_ok, built, handled, height_warnings>>

\* The 6 s sleep is over: back to the height fetch.
Sleep6s ==
   /\ pc = "sleep_6s"
   /\ pc' = "abci_info"
   /\ UNCHANGED <<chain, envVars, mainVars, channel_id, last_height, current_height,
                  start_height, historyVars>>

Next ==
   \/ ChainAdvance
   \/ NewOk
   \/ NewErr
   \/ AbciInfoOk
   \/ AbciInfoErr
   \/ Sleep10s
   \/ BlockResultsOk
   \/ BlockResultsErr
   \/ Sleep200ms
   \/ Sleep6s

Spec == Init /\ [][Next]_vars

(***************************************************************************)
(* main: one task per relay of config.relays                               *)
(***************************************************************************)

\* The heights the chains of the relays report.
TaskHeights == Base..(Base + MaxBlocks)

TaskError(text, r) == [level |-> "error", text |-> text, relay |-> r]

\* A turn of main's loop: the next relay of config.relays gets its task; after
\* the last one main goes on to wait for ctrl_c.
MainSpawn ==
   /\ main_pc = "for"
   /\ LET r == CHOOSE x \in Relays :
                  /\ tasks[x].pc = "unspawned"
                  /\ \A y \in Relays : y < x => tasks[y].pc # "unspawned"
      IN  /\ tasks' = [tasks EXCEPT ![r].pc = "new"]
          /\ main_pc' = IF r = MaxRelays THEN "ctrl_c" ELSE "for"
   /\ UNCHANGED <<chain, envVars, height_warnings, pc, channel_id, last_height,
                  current_height, start_height, fetched, fetch_ok, built, handled,
                  log, main_log>>

\* The shutdown signal: main returns, the process ends and its tasks with it.
CtrlC ==
   /\ main_pc = "ctrl_c"
   /\ main_pc' = "exited"
   /\ UNCHANGED <<chain, envVars, height_warnings, pc, channel_id, last_height,
                  current_height, start_height, fetched, fetch_ok, built, handled,
                  log, tasks, main_log>>

\* IbcPoller::new of the task of relay r returned the poller.
TaskNewOk(r) ==
   /\ main_pc # "exited"
   /\ tasks[r].pc = "new"
   /\ \E h \in TaskHeights :
         tasks' = [tasks EXCEPT ![r] = [pc |-> "poll", last_height |-> h]]
   /\ UNCHANGED <<chain, envVars, height_warnings, pc, channel_id, last_height,
                  current_height, start_height, fetched, fetch_ok, built, handled,
                  log, main_pc, main_log>>

\* The error of IbcPoller::new propagated out of main with ?: the process
\* ends.
TaskNewErr_fatal(r) ==
   /\ main_pc # "exited"
   /\ tasks[r].pc = "new"
   /\ tasks' = [tasks EXCEPT ![r].pc = "init_failed"]
   /\ main_log' = Append(main_log, TaskError("Failed to initialize poller", r))
   /\ main_pc' = "exited"
   /\ UNCHANGED <<chain, envVars, height_warnings, pc, channel_id, last_height,
                  current_height, start_height, fetched, fetch_ok, built, handled,
                  log>>

\* IbcPoller::new of the task of relay r returned an error: the task logs it
\* and ends.
TaskNewErr(r) ==
   /\ main_pc # "exited"
   /\ tasks[r].pc = "new"
   /\ tasks' = [tasks EXCEPT ![r].pc = "init_failed"]
   /\ main_log' = Append(main_log, TaskError("Failed to initialize poller", r))
   /\ UNCHANGED <<chain, envVars, height_warnings, pc, channel_id, last_height,
                  current_height, start_height, fetched, fetch_ok, built, handled,
                  log, main_pc>>

\* A turn of the loops of poll in the task of relay r, the chain reported at
\* height h: the cursor moves one height towards h; if its conversion to a
\* Height fails, poll returns the error, the task logs it and ends.
TaskPoll(r) ==
   /\ main_pc # "exited"
   /\ tasks[r].pc = "poll"
   /\ \E h \in TaskHeights :
         /\ tasks[r].last_height < h
         /\ IF HeightTryFromOk(tasks[r].last_height + 1)
            THEN /\ tasks' = [tasks EXCEPT ![r].last_height = @ + 1]
                 /\ UNCHANGED main_log
            ELSE /\ tasks' = [tasks EXCEPT ![r] = [pc |-> "poll_failed",
                                                   last_height |-> @.last_height + 1]]
                 /\ main_log' = Append(main_log, TaskError("Polling error", r))
   /\ UNCHANGED <<chain, envVars, height_warnings, pc, channel_id, last_height,
                  current_height, start_height, fetched, fetch_ok, built, handled,
                  log, main_pc>>

NextMain ==
   \/ MainSpawn
   \/ CtrlC
   \/ \E r \in Relays : TaskNewOk(r)
   \/ \E r \in Relays : TaskNewErr(r)
   \/ \E r \in Relays : TaskPoll(r)

SpecMain == Init /\ [][NextMain]_vars

(***************************************************************************)
(* Vocabulary of the properties                                            *)
(***************************************************************************)

Range(f) == {f[i] : i \in DOMAIN f}

\* The poller exists: new has returned it.
Initialized == pc \notin {"new", "init_failed"}

\* The event of the chain named by at = <<height, transaction, event>>.
EventAt(at) == block_results(at[1]).txs_results.v[at[2]].events[at[3]]

\* The events of height h that pass the filter of the monitored channel.
QualifyingAt(h) ==
   LET r == block_results(h)
   IN  IF ~r.txs_results.some THEN {}
       ELSE UNION {{<<h, t, e>> : e \in {x \in 1..Len(r.txs_results.v[t].events) :
                                           is_relevant(r.txs_results.v[t].events[x], channel_id)}}
                   : t \in 1..Len(r.txs_results.v)}

\* The poller is through with height h: it has left the iteration of the
\* inner loop that incremented the cursor to h.
Passed(h) ==
   /\ Initialized
   /\ start_height < h
   /\ (h < last_height \/ (h = last_height /\ pc # "block_results"))

\* A line of the log tells of a failure at height h: for the event at, or for
\* the whole block.
FailureLine(l) == l.level \in {"debug", "warn", "error"}
ReportedAt(at) ==
   \E i \in DOMAIN log :
      /\ FailureLine(log[i])
      /\ (log[i].at = at \/ log[i].at = <<at[1], 0, 0>>)

\* The block_results call for h failed / the failure was escalated: reported
\* above the debug level.
FetchFailed(h) ==
   \E i \in DOMAIN log : log[i].text = BLOCK_RESULTS_FAILED /\ log[i].at[1] = h
Escalated(h) ==
   \E i \in DOMAIN log :
      /\ log[i].text = BLOCK_RESULTS_FAILED
      /\ log[i].at[1] = h
      /\ log[i].level \in {"warn", "error"}

LexLess(a, b) ==
   \/ a[1] < b[1]
   \/ a[1] = b[1] /\ a[2] < b[2]
   \/ a[1] = b[1] /\ a[2] = b[2] /\ a[3] < b[3]

(***************************************************************************)
(* The properties                                                          *)
(***************************************************************************)

\* C1: whenever the cursor last_height has a value H above the start height,
\* the block results of H were fetched successfully and every qualifying
\* event of H was handled.  It is stated for the states in which the call
\* block_results(H) is not in flight: the code increments the cursor before
\* that call, so that read on every state the property fails earlier still.
C1_ProcessedBeforeCursor ==
   (Initialized /\ last_height > start_height /\ pc # "block_results") =>
      /\ last_height \in fetch_ok
      /\ QualifyingAt(last_height) \subseteq Range(handled)

\* C2: a height H whose block-results fetch failed is not skipped: until H's
\* results were obtained or the failure was escalated, no height above H is
\* fetched and the cursor stays at or below H.
C2_FailedHeightNotSkipped ==
   \A i \in DOMAIN fetched :
      (FetchFailed(fetched[i]) /\ fetched[i] \notin fetch_ok /\ ~Escalated(fetched[i])) =>
         /\ \A j \in DOMAIN fetched : j > i => fetched[j] <= fetched[i]
         /\ last_height <= fetched[i]

\* C3: no silent loss: once the poller is through with a height above its
\* start height, every qualifying event of that height has its ParsedPacket
\* produced or a failure reported for it (for the event or for its block).
C3_NoSilentLoss ==
   \A h \in (Base + 1)..Tip :
      Passed(h) =>
         \A at \in QualifyingAt(h) :
            \/ \E i \in DOMAIN built : built[i].at = at
            \/ ReportedAt(at)

\* C4: the cursor last_height never decreases, whatever the RPC calls answer.
C4_MonotonicCursor == [][last_height' >= last_height]_vars

\* C4 witness: the chain has reported a height below the cursor after the
\* cursor had advanced.
C4_Witness ==
   /\ Initialized
   /\ last_height > start_height
   /\ current_height < last_height
   /\ pc = "sleep_6s"

\* C5: the heights passed to block_results are start + 1, start + 2, ... in
\* this order, and the qualifying events are handled in the order of the
\* chain: by height, then transaction, then event, none left out in a block
\* whose results were fetched; the messages are built in that order too.
C5_Ordering ==
   /\ \A i \in DOMAIN fetched : fetched[i] = start_height + i
   /\ \A i, j \in DOMAIN handled : i < j => LexLess(handled[i], handled[j])
   /\ \A i, j \in DOMAIN built : i < j => LexLess(built[i].at, built[j].at)
   /\ \A h \in fetch_ok :
         Passed(h) => {at \in Range(handled) : at[1] = h} = QualifyingAt(h)

\* C5 witness: two heights were fetched and events of two transactions of one
\* block were handled.
C5_Witness ==
   /\ Len(fetched) >= 2
   /\ \E i, j \in DOMAIN handled :
         /\ handled[i][1] = handled[j][1]
         /\ handled[i][2] < handled[j][2]
   /\ Len(built) >= 2

\* C6: a failure of the current-height fetch leaves the cursor unchanged,
\* fetches no block results and builds no message; the poller then sleeps and
\* its next step is the height fetch again, however many failures came before.
C6_HeightFetchFailure ==
   [][/\ (height_warnings' # height_warnings) =>
            /\ pc = "abci_info" /\ pc' = "sleep_10s"
            /\ UNCHANGED <<last_height, fetched, fetch_ok, built, handled>>
      /\ (pc = "sleep_10s" /\ pc' # pc) =>
            /\ pc' = "abci_info"
            /\ UNCHANGED <<last_height, fetched, fetch_ok, built, handled>>
      /\ (pc' = "sleep_10s" /\ pc # pc') => height_warnings' = height_warnings + 1]_vars

\* C6 witness: after the cursor had advanced, the height fetch failed
\* MaxHeightFailures times and the poller is at the height fetch once more.
C6_Witness ==
   /\ height_warnings = MaxHeightFailures
   /\ pc = "abci_info"
   /\ last_height > start_height

\* The end-to-end scenario: the poller started at 999, the chain is at 1000
\* with the block of one send_packet of sequence 42, no RPC call has failed,
\* and the poller has finished the iteration that saw height 1000.
E2EScenario ==
   /\ Initialized
   /\ start_height = 999
   /\ Tip = 1000
   /\ chain[1] = <<"block", "E2E">>
   /\ channel_id = CHANNEL_7
   /\ height_warnings = 0
   /\ \A i \in DOMAIN fetched : ~FetchFailed(fetched[i])
   /\ current_height = 1000
   /\ pc = "sleep_6s"

\* C7: in the end-to-end scenario exactly one message was built, its
\* packet.sequence is 42 and the cursor is 1000.
C7_EndToEnd ==
   E2EScenario =>
      /\ Len(built) = 1
      /\ built[1].msg.packet.sequence = 42
      /\ last_height = 1000

\* C7 witness: the end-to-end scenario has happened.
C7_Witness == E2EScenario /\ Len(built) = 1

(***************************************************************************)
(* The filter on its own: one block of one event, any event of FilterEvents *)
(***************************************************************************)

\* The longest attribute list of the events the filter is tried on.
MaxAttrs == 2

FilterKinds == {"send_packet", "write_acknowledgement", "recv_packet", "transfer"}

FilterAttrs ==
   {Attr("packet_src_channel", CHANNEL_7), Attr("packet_src_channel", CHANNEL_8),
    Attr("packet_dst_channel", CHANNEL_7), Attr("packet_dst_channel", CHANNEL_8),
    Attr("packet_src_port", CHANNEL_7), Attr("packet_connection", CHANNEL_8)}

AttrLists == UNION {[1..n -> FilterAttrs] : n \in 0..MaxAttrs}

FilterEvents == {Event(k, attrs) : k \in FilterKinds, attrs \in AttrLists}

\* The poller awaits the block results of height Base + 1, a block with one
\* transaction of one event.
InitFilter ==
   /\ \E ev \in FilterEvents : chain = <<<<"event", ev>>>>
   /\ \E e \in Environments :
         /\ RELAYER_SIGNER = e.RELAYER_SIGNER
         /\ encryption_proof = e.encryption_proof
   /\ height_warnings = 0
   /\ pc = "block_results"
   /\ channel_id \in {CHANNEL_7, CHANNEL_8}
   /\ last_height = Base + 1
   /\ current_height = Base + 1
   /\ start_height = Base
   /\ fetched = <<Base + 1>>
   /\ fetch_ok = {}
   /\ built = <<>>
   /\ handled = <<>>
   /\ log = <<>>
   /\ InitMain

NextFilter == BlockResultsOk

SpecFilter == InitFilter /\ [][NextFilter]_vars

\* The filter predicate as the specification states it.
ChannelKeys == {"packet_src_channel", "packet_dst_channel"}
Qualifies(event, channel) ==
   /\ event.kind \in {"send_packet", "write_acknowledgement"}
   /\ channel \in {a.value : a \in {x \in Range(event.attributes) : x.key \in ChannelKeys}}

\* The event of the example: send_packet with packet_dst_channel = channel-7.
FilterExample == Event("send_packet", <<Attr("packet_dst_channel", CHANNEL_7)>>)

TheEvent == <<Base + 1, 1, 1>>

\* C8: an event is selected for decoding exactly when its kind is send_packet
\* or write_acknowledgement and an attribute with key packet_src_channel or
\* packet_dst_channel has the monitored channel as value; the example event
\* is selected when monitoring channel-7 and excluded when monitoring
\* channel-8.
C8_FilterCorrect ==
   pc = "sleep_200ms" =>
      /\ (TheEvent \in Range(handled)) <=> Qualifies(EventAt(TheEvent), channel_id)
      /\ (EventAt(TheEvent) = FilterExample /\ channel_id = CHANNEL_7) => handled = <<TheEvent>>
      /\ (EventAt(TheEvent) = FilterExample /\ channel_id = CHANNEL_8) => handled = <<>>

\* C8 witness: the example event was selected by a poller of channel-7.
C8_Witness ==
   /\ pc = "sleep_200ms"
   /\ EventAt(TheEvent) = FilterExample
   /\ channel_id = CHANNEL_7
   /\ handled = <<TheEvent>>

(***************************************************************************)
(* The decoder's rejections                                                *)
(***************************************************************************)

\* The JSON value of the payload of an event a message was built from.
PayloadValue(event) ==
   json_from_str(from_utf8_lossy(
      hex_decode(DecodeAttributes(event.attributes, InitialFields).packet_data_hex).bytes)).v

\* C9: no ParsedPacket or message is built from an event whose payload lacks
\* one of the string fields amount, denom, sender, receiver.
C9_MissingFieldRejected ==
   \A i \in DOMAIN built :
      \A k \in {AMOUNT, DENOM, SENDER, RECEIVER} :
         json_index(PayloadValue(EventAt(built[i].at)), k).t = "str"

\* C10: no ParsedPacket or message is built from an event whose
\* packet_sequence or packet_timeout_timestamp attribute does not parse as a
\* non-negative integer.
C10_UnparsableRejected ==
   \A i \in DOMAIN built :
      LET attrs == EventAt(built[i].at).attributes
      IN  \A j \in DOMAIN attrs :
             attrs[j].key \in {"packet_sequence", "packet_timeout_timestamp"} =>
                ParseU64(attrs[j].value).ok

(***************************************************************************)
(* The message relay_packet builds                                         *)
(***************************************************************************)

\* The timeout height a text "R-H" denotes: the pair of its two numbers when
\* H is positive; no timeout for the empty text and for a part that is
\* missing, not a number, or zero.
TimeoutOf(text) ==
   LET parts == split(text, "-")
   IN  IF /\ Len(parts) = 2
          /\ ParseU64(parts[1]).ok
          /\ ParseU64(parts[2]).ok
          /\ ParseU64(parts[2]).val > 0
       THEN Some(IbcHeight(ParseU64(parts[1]).val, ParseU64(parts[2]).val))
       ELSE None

\* C11: the packet of every message carries the timeout height its
\* ParsedPacket's timeout_height text denotes: "R-H" with H positive gives
\* revision_number R and revision_height H ("3-150" gives 3 and 150), the
\* empty text and a text with height 0 give no timeout.
C11_TimeoutParsed ==
   \A i \in DOMAIN built :
      built[i].msg.packet.timeout_height = TimeoutOf(built[i].parsed.timeout_height)

\* C12: the proof height of every message is the height of the block its
\* event was read from: revision_height is that block's height and the
\* ParsedPacket is the decoding of the event at that place of the chain,
\* however far the chain is ahead of the cursor.
C12_ProofHeightOfBlock ==
   \A i \in DOMAIN built :
      /\ built[i].msg.proof_height.revision_height = built[i].at[1]
      /\ built[i].at \in QualifyingAt(built[i].at[1])
      /\ built[i].parsed.sequence =
            DecodeAttributes(EventAt(built[i].at).attributes, InitialFields).sequence

\* C12 witness: while catching up, the poller has built messages from two
\* blocks, the first of them while the chain was reported ahead of it.
C12_Witness ==
   /\ Len(built) >= 2
   /\ built[1].at[1] < built[Len(built)].at[1]
   /\ built[1].at[1] < current_height
   /\ built[1].msg.proof_height.revision_height = built[1].at[1]

\* The proof generation failed for the event at.
ProofFailedAt(at) ==
   \E i \in DOMAIN log :
      log[i].text = "ZK proof generation failed" /\ log[i].at = at

\* C13: no message is built from an event whose proof generation failed, and
\* a message with an empty proof_commitment is built only by a build without
\* a proof provider (without the encryption-proof feature).
C13_ProofRequired ==
   \A i \in DOMAIN built :
      /\ ~ProofFailedAt(built[i].at)
      /\ (built[i].msg.proof_commitment = <<>>) => ~encryption_proof

(***************************************************************************)
(* The tasks of main                                                       *)
(***************************************************************************)

\* The task of relay r has ended with an error.
FailedPcs == {"init_failed", "poll_failed"}
Failed(r) == tasks[r].pc \in FailedPcs

\* The task of relay q can take its next step.
CanStep(q) ==
   /\ (tasks[q].pc = "unspawned") => ENABLED MainSpawn
   /\ (tasks[q].pc = "new") => ENABLED TaskNewOk(q)
   /\ (tasks[q].pc = "poll" /\ tasks[q].last_height < Base + MaxBlocks) =>
         ENABLED TaskPoll(q)

\* C14: the failure of the task of one relay (an error of IbcPoller::new or
\* an Err returned by poll) is logged, changes neither the state of the task
\* of another relay nor the place of main, and does not end the process;
\* while the process runs, the tasks of the other relays can take their next
\* steps whichever tasks have failed.
C14_Isolation ==
   /\ [](\A r, q \in Relays :
            (Failed(r) /\ q # r /\ main_pc # "exited") => CanStep(q))
   /\ [][\A r \in Relays :
            (tasks[r].pc \notin FailedPcs /\ tasks'[r].pc \in FailedPcs) =>
               /\ \E text \in {"Failed to initialize poller", "Polling error"} :
                     main_log' = Append(main_log, TaskError(text, r))
               /\ \A q \in Relays \ {r} : tasks'[q] = tasks[q]
               /\ main_pc' = main_pc
               /\ main_pc' # "exited"]_vars

\* C14 witness: the task of one relay failed at its start, the process runs
\* and the poller of another relay has moved its cursor.
C14_Witness ==
   \E r, q \in Relays :
      /\ tasks[r].pc = "init_failed"
      /\ \E i \in DOMAIN main_log : main_log[i].relay = r
      /\ tasks[q].pc = "poll"
      /\ tasks[q].last_height > Base
      /\ main_pc = "ctrl_c"

(***************************************************************************)
(* Decode errors                                                           *)
(***************************************************************************)

\* The payload of the event is present and is not hex, or not JSON.
Malformed(event) ==
   LET hx == DecodeAttributes(event.attributes, InitialFields).packet_data_hex
   IN  /\ hx # <<>>
       /\ \/ ~hex_decode(hx).ok
          \/ ~json_from_str(from_utf8_lossy(hex_decode(hx).bytes)).ok

\* The payload of the event is JSON and lacks one of the four string fields.
FieldMissing(event) ==
   /\ DecodeAttributes(event.attributes, InitialFields).packet_data_hex # <<>>
   /\ ~Malformed(event)
   /\ \E k \in {AMOUNT, DENOM, SENDER, RECEIVER} : json_index(PayloadValue(event), k).t # "str"

\* A warning or an error was logged for the event at.
WarnedAt(at) ==
   \E i \in DOMAIN log : log[i].level \in {"warn", "error"} /\ log[i].at = at

\* C15: an event with a decode error (malformed hex, malformed JSON, missing
\* payload fields) is reported and gives no message; the poller goes on: the
\* other qualifying events of its block are handled in order and the cursor
\* reaches the block's height and passes it.
C15_DecodeErrorSkipped ==
   \A i \in DOMAIN handled :
      (Malformed(EventAt(handled[i])) \/ FieldMissing(EventAt(handled[i]))) =>
         /\ WarnedAt(handled[i])
         /\ \A j \in DOMAIN built : built[j].at # handled[i]
         /\ pc # "returned"
         /\ last_height >= handled[i][1]
         /\ Passed(handled[i][1]) =>
               /\ QualifyingAt(handled[i][1]) \subseteq Range(handled)
               /\ \A j, k \in DOMAIN handled : j < k => LexLess(handled[j], handled[k])

\* C16: no two messages of a run are built for the same pair of src_channel
\* and sequence, whatever the blocks hold.
C16_RelayedOnce ==
   \A i, j \in DOMAIN built :
      (/\ built[i].parsed.src_channel = built[j].parsed.src_channel
       /\ built[i].parsed.sequence = built[j].parsed.sequence) => i = j

(***************************************************************************)
(* The start of the poller                                                 *)
(***************************************************************************)

\* C17: new either fails, and then there is no poller (no cursor, no fetch,
\* no message), or sets the cursor to the height h0 the chain reported; from
\* then on the cursor is at least h0, and no height at or below h0 is passed
\* to block_results or is the height of a handled event or of a message.
C17_NoBackfill ==
   /\ (pc \in {"new", "init_failed"}) =>
         /\ last_height = 0
         /\ fetched = <<>>
         /\ handled = <<>>
         /\ built = <<>>
   /\ Initialized =>
         /\ start_height \in Base..Tip
         /\ last_height >= start_height
         /\ (fetched = <<>>) => last_height = start_height
         /\ \A i \in DOMAIN fetched : fetched[i] > start_height
         /\ \A i \in DOMAIN handled : handled[i][1] > start_height
         /\ \A i \in DOMAIN built : built[i].at[1] > start_height

\* C17 witness: the poller started on a chain that had a block with
\* qualifying events at its tip, and has since built a message from a later
\* block.
C17_Witness ==
   /\ Initialized
   /\ start_height > Base
   /\ QualifyingAt(start_height) # {}
   /\ built # <<>>
   /\ \A i \in DOMAIN built : built[i].at[1] > start_height

\* C18: the signer of every message is the one the configuration supplies:
\* no message is built when RELAYER_SIGNER is not set, and a built message
\* carries the value of RELAYER_SIGNER.
C18_SignerConfigured ==
   \A i \in DOMAIN built :
      /\ RELAYER_SIGNER.some
      /\ built[i].msg.signer = RELAYER_SIGNER.v

(***************************************************************************)
(* poll does not return                                                    *)
(***************************************************************************)

\* The places of a running poll: the calls and sleeps it awaits.
PollPcs == {"abci_info", "sleep_10s", "block_results", "sleep_200ms", "sleep_6s"}

\* The step records a failure of an RPC call, of a decoding or of the
\* building of a message: a warning of the height fetch, or a new line of
\* the log at the debug, warn or error level other than the fatal one.
FailureStep ==
   \/ height_warnings' # height_warnings
   \/ \E i \in (Len(log) + 1)..Len(log') :
         FailureLine(log'[i]) /\ log'[i].text # "Polling error"

\* C19: once new has returned the poller, poll is at one of its calls or
\* sleeps and has a next step, whatever failed before; a step that records
\* an RPC failure, a decode error or a failed proof leaves poll running; poll
\* returns only from the head of its inner loop when the cursor cannot be
\* converted to a Height.
C19_PollKeepsRunning ==
   /\ [](Initialized =>
            \/ /\ pc \in PollPcs
               /\ ENABLED (AbciInfoOk \/ Sleep10s \/ BlockResultsErr \/ Sleep200ms \/ Sleep6s)
            \/ pc = "returned" /\ ~HeightTryFromOk(last_height))
   /\ [][/\ (Initialized /\ FailureStep) => pc' \in PollPcs
         /\ (pc' = "returned" /\ pc # "returned") =>
               /\ pc \in {"abci_info", "sleep_200ms"}
               /\ ~HeightTryFromOk(last_height')]_vars

\* C19 witness: the height fetch has failed, a block_results call has failed,
\* an event could not be decoded, and poll has gone on: the cursor is past
\* the height of the failed call and poll is at its height fetch.
C19_Witness ==
   /\ height_warnings >= 1
   /\ \E h \in (Base + 1)..Tip : FetchFailed(h) /\ last_height > h
   /\ \E i \in DOMAIN log : log[i].level = "warn"
   /\ pc = "abci_info"

(***************************************************************************)
(* The attribute loop on its own: one block of one send_packet event of    *)
(* the monitored channel, with attributes added before and after its own   *)
(***************************************************************************)

\* The most attributes added to an event.
MaxExtra == 2

\* The attributes of a send_packet event of channel-7.
DecodeBase == PacketAttrs(<<"4", "2">>, CHANNEL_7, CHANNEL_8, T3_150, HexOfText(PayloadValid))

\* The attributes added: known keys with other values, and unknown keys.
DecodeExtras ==
   {Attr("packet_sequence", <<"7">>),
    Attr("packet_sequence", <<"x">>),
    Attr("packet_src_port", <<"p">>),
    Attr("packet_src_channel", CHANNEL_9),
    Attr("packet_timeout_height", <<"1", "-", "9">>),
    Attr("packet_timeout_timestamp", <<"5">>),
    Attr("packet_data_hex", HexOfText(PayloadNoDenom)),
    Attr("memo", <<"m">>),
    Attr("packet_data", <<"7">>)}

ExtraLists == UNION {[1..n -> DecodeExtras] : n \in 0..MaxExtra}

DecodeEvents ==
   {Event("send_packet", pre \o DecodeBase \o post) :
       <<pre, post>> \in {x \in ExtraLists \X ExtraLists : Len(x[1]) + Len(x[2]) <= MaxExtra}}

\* The poller of channel-7 awaits the block results of height Base + 1, a
\* block with one transaction of one event.
InitDecode ==
   /\ \E ev \in DecodeEvents : chain = <<<<"event", ev>>>>
   /\ \E e \in Environments :
         /\ RELAYER_SIGNER = e.RELAYER_SIGNER
         /\ encryption_proof = e.encryption_proof
   /\ height_warnings = 0
   /\ pc = "block_results"
   /\ channel_id = CHANNEL_7
   /\ last_height = Base + 1
   /\ current_height = Base + 1
   /\ start_height = Base
   /\ fetched = <<Base + 1>>
   /\ fetch_ok = {}
   /\ built = <<>>
   /\ handled = <<>>
   /\ log = <<>>
   /\ InitMain

NextDecode == BlockResultsOk

SpecDecode == InitDecode /\ [][NextDecode]_vars

KnownKeys ==
   {"packet_sequence", "packet_src_port", "packet_src_channel", "packet_dst_port",
    "packet_dst_channel", "packet_timeout_height", "packet_timeout_timestamp",
    "packet_data_hex"}

\* The value of the last attribute with the key, dflt when there is none.
LastValue(attrs, key, dflt) ==
   LET idx == {i \in DOMAIN attrs : attrs[i].key = key}
   IN  IF idx = {} THEN dflt
       ELSE attrs[CHOOSE i \in idx : \A j \in idx : j <= i].value

\* The payload the text of packet_data_hex holds.
PayloadOf(hx) == json_from_str(from_utf8_lossy(hex_decode(hx).bytes)).v

\* C20: the ParsedPacket of an event holds, for every known key, the value
\* of the last attribute with that key (the number it parses to, or 0, for
\* the two numeric keys), and the payload fields of the last packet_data_hex;
\* attributes with other keys change nothing: the ParsedPacket is the one of
\* the event without them.
C20_LastWriteWins ==
   pc = "sleep_200ms" =>
      /\ Len(built) = 1
      /\ LET a == EventAt(TheEvent).attributes
             p == built[1].parsed
             v == PayloadOf(LastValue(a, "packet_data_hex", <<>>))
         IN  /\ p.sequence = parse_unwrap_or(LastValue(a, "packet_sequence", <<"0">>), 0)
             /\ p.timeout_timestamp =
                   parse_unwrap_or(LastValue(a, "packet_timeout_timestamp", <<"0">>), 0)
             /\ p.src_port = LastValue(a, "packet_src_port", <<>>)
             /\ p.src_channel = LastValue(a, "packet_src_channel", <<>>)
             /\ p.dst_port = LastValue(a, "packet_dst_port", <<>>)
             /\ p.dst_channel = LastValue(a, "packet_dst_channel", <<>>)
             /\ p.timeout_height = LastValue(a, "packet_timeout_height", <<>>)
             /\ p.data = [amount |-> as_str_unwrap_or(v, AMOUNT, <<"0">>),
                          denom |-> as_str_unwrap_or(v, DENOM, <<>>),
                          sender |-> as_str_unwrap_or(v, SENDER, <<>>),
                          receiver |-> as_str_unwrap_or(v, RECEIVER, <<>>)]
             /\ p = MakeParsedPacket(
                       DecodeAttributes(SelectSeq(a, LAMBDA x : x.key \in KnownKeys),
                                        InitialFields), v)

\* C20 witness: an event with packet_sequence 42, then "7", and an attribute
\* memo after them was decoded to sequence 7.
C20_Witness ==
   /\ pc = "sleep_200ms"
   /\ EventAt(TheEvent).attributes =
         DecodeBase \o <<Attr("packet_sequence", <<"7">>), Attr("memo", <<"m">>)>>
   /\ Len(built) = 1
   /\ built[1].parsed.sequence = 7

(***************************************************************************)
(* The packet of the message                                               *)
(***************************************************************************)

\* C21: the packet of every message has the sequence, the source port and
\* channel, the destination port and channel and the timeout_timestamp of
\* the ParsedPacket it was built from, and that ParsedPacket holds the
\* values of the attributes of its event.
C21_PacketFieldsCopied ==
   \A i \in DOMAIN built :
      LET p == built[i].parsed
          w == built[i].msg.packet
          f == DecodeAttributes(EventAt(built[i].at).attributes, InitialFields)
      IN  /\ w.sequence = p.sequence
          /\ w.source_port = p.src_port
          /\ w.source_channel = p.src_channel
          /\ w.destination_port = p.dst_port
          /\ w.destination_channel = p.dst_channel
          /\ w.timeout_timestamp = p.timeout_timestamp
          /\ <<p.sequence, p.src_port, p.src_channel, p.dst_port, p.dst_channel,
               p.timeout_timestamp>> =
             <<f.sequence, f.src_port, f.src_channel, f.dst_port, f.dst_channel,
               f.timeout_timestamp>>

\* C21 witness: a message was built from a packet of sequence 42 sent from
\* channel-7 to channel-8 with timeout_timestamp 17.
C21_Witness ==
   \E i \in DOMAIN built :
      /\ built[i].msg.packet.sequence = 42
      /\ built[i].msg.packet.source_channel = CHANNEL_7
      /\ built[i].msg.packet.destination_channel = CHANNEL_8
      /\ built[i].msg.packet.source_port = TRANSFER
      /\ built[i].msg.packet.timeout_timestamp = 17

(***************************************************************************)
(* The body of the event loop on its own: one block of one event, any      *)
(* event of BuildEvents                                                    *)
(***************************************************************************)

BuildKinds == {"send_packet", "write_acknowledgement", "recv_packet"}

\* Source and destination channel of the events.
BuildChannels == {<<CHANNEL_7, CHANNEL_8>>, <<CHANNEL_8, CHANNEL_7>>, <<CHANNEL_8, CHANNEL_9>>}

\* The values of packet_data_hex: none (the attribute is absent), the empty
\* text, texts that are not hex, hex of bytes that are not JSON, hex of JSON.
BuildData ==
   {None,
    Some(<<>>),
    Some(<<"z", "z">>),
    Some(<<"7", "b", "7">>),
    Some(<<"f", "f">>),
    Some(HexOfText(PayloadBroken)),
    Some(HexOfText(PayloadNoDenom)),
    Some(HexOfText(PayloadValid)),
    Some(HexOfText(<<"7">>))}

BuildEvents ==
   {Event(k, IF d.some
             THEN PacketAttrs(<<"4", "2">>, c[1], c[2], T3_150, d.v)
             ELSE WithoutKey(PacketAttrs(<<"4", "2">>, c[1], c[2], T3_150, <<>>),
                             "packet_data_hex")) :
       k \in BuildKinds, c \in BuildChannels, d \in BuildData}

\* The poller of channel-7 awaits the block results of height Base + 1, a
\* block with one transaction of one event.
InitBuild ==
   /\ \E ev \in BuildEvents : chain = <<<<"event", ev>>>>
   /\ \E e \in Environments :
         /\ RELAYER_SIGNER = e.RELAYER_SIGNER
         /\ encryption_proof = e.encryption_proof
   /\ height_warnings = 0
   /\ pc = "block_results"
   /\ channel_id = CHANNEL_7
   /\ last_height = Base + 1
   /\ current_height = Base + 1
   /\ start_height = Base
   /\ fetched = <<Base + 1>>
   /\ fetch_ok = {}
   /\ built = <<>>
   /\ handled = <<>>
   /\ log = <<>>
   /\ InitMain

NextBuild == BlockResultsOk

SpecBuild == InitBuild /\ [][NextBuild]_vars

\* The text is valid hex and the bytes it stands for parse as JSON.
HexOfJson(hx) ==
   /\ hex_decode(hx).ok
   /\ json_from_str(from_utf8_lossy(hex_decode(hx).bytes)).ok

\* C22: a message is built for an event exactly when the event passes the
\* channel filter, its packet_data_hex is present and not empty, is valid hex
\* and its bytes parse as JSON; at most one message is built for it; for a
\* qualifying event with an absent or empty packet_data_hex no message is
\* built and neither the hex warning nor the JSON warning is logged.
C22_BuiltIff ==
   pc = "sleep_200ms" =>
      LET ev == EventAt(TheEvent)
          hx == LastValue(ev.attributes, "packet_data_hex", <<>>)
      IN  /\ (built # <<>>) <=>
                (Qualifies(ev, channel_id) /\ hx # <<>> /\ HexOfJson(hx))
          /\ Len(built) <= 1
          /\ \A i \in DOMAIN built : built[i].at = TheEvent
          /\ (Qualifies(ev, channel_id) /\ hx = <<>>) =>
                /\ built = <<>>
                /\ \A i \in DOMAIN log : log[i].level # "warn"

\* C22 witness: a send_packet event of the monitored channel without
\* packet_data_hex was handled: no message, no warning.
C22_Witness ==
   /\ pc = "sleep_200ms"
   /\ handled = <<TheEvent>>
   /\ EventAt(TheEvent).kind = "send_packet"
   /\ \A i \in DOMAIN EventAt(TheEvent).attributes :
         EventAt(TheEvent).attributes[i].key # "packet_data_hex"
   /\ built = <<>>
   /\ \A i \in DOMAIN log : log[i].level = "info"

(***************************************************************************)
(* The requests for block results                                          *)
(***************************************************************************)

\* The number of requests made for the block results of height h.
Requests(h) == Cardinality({i \in DOMAIN fetched : fetched[i] = h})

\* C23: while poll runs, block_results was requested once for every height
\* from start + 1 to the cursor and for no other height, whether the request
\* succeeded or failed: the request for the cursor's height is in flight or
\* has had one of the two outcomes, each height below it has had one.
C23_OncePerHeight ==
   (Initialized /\ pc \in PollPcs) =>
      /\ \A h \in (start_height + 1)..last_height : Requests(h) = 1
      /\ \A i \in DOMAIN fetched : fetched[i] \in (start_height + 1)..last_height
      /\ \A h \in (start_height + 1)..last_height :
            IF Passed(h) THEN (h \in fetch_ok) # FetchFailed(h)
            ELSE h \notin fetch_ok /\ ~FetchFailed(h)

\* C23 witness: the cursor has passed two heights; the request for the first
\* failed and the request for the second succeeded.
C23_Witness ==
   /\ pc = "sleep_6s"
   /\ last_height = start_height + 2
   /\ FetchFailed(start_height + 1)
   /\ (start_height + 2) \in fetch_ok
   /\ Len(fetched) = 2

(***************************************************************************)
(* The cursor and the heights the chain reported                           *)
(***************************************************************************)

\* The step is an answer of the height fetch (not its failure).
HeightAnswered ==
   pc = "abci_info" /\ pc' # "abci_info" /\ height_warnings' = height_warnings

\* C24: the cursor is never above the heights the chain has reported to the
\* poller: new sets it to the reported height, and every later change leaves
\* it at or below the height of the last successful height fetch, so at or
\* below the tip of the chain; when the height fetch answers a height at or
\* below the cursor, the poller goes to its 6 s sleep and back to the height
\* fetch with the cursor unchanged, no block results requested and no
\* message built; when the inner loop is left, the cursor is at or above the
\* height fetched in that turn.
C24_CursorWithinObserved ==
   /\ [](Initialized => last_height <= Tip)
   /\ [][/\ (pc = "new" /\ pc' = "abci_info") => last_height' \in ReportedHeights
         /\ (Initialized /\ last_height' # last_height) => last_height' <= current_height'
         /\ (HeightAnswered /\ current_height' <= last_height) =>
               /\ pc' = "sleep_6s"
               /\ UNCHANGED <<last_height, fetched, fetch_ok, built, handled>>
         /\ (pc = "sleep_6s" /\ pc' # pc) =>
               /\ pc' = "abci_info"
               /\ UNCHANGED <<last_height, fetched, fetch_ok, built, handled>>
         /\ (pc' = "sleep_6s" /\ pc # pc') => last_height' >= current_height']_vars

\* C24 witness: after the cursor had moved two heights up to the tip, the
\* height fetch answered a lower height and the poller went to its 6 s sleep.
C24_Witness ==
   /\ pc = "sleep_6s"
   /\ Len(fetched) = 2
   /\ last_height = Tip
   /\ current_height < last_height

=============================================================================
